---------------------------- MODULE Spec2Model ----------------------------
(***************************************************************************)
(* Three-phase viscoelastic property model (three-phase-viscoelastic.h).   *)
(*                                                                         *)
(* Numbers.  The C code works on doubles; the model works in exact         *)
(* rational arithmetic on integers with a known denominator:               *)
(*   - a fraction field f1, f2 holds integers in units of 1/Unit, so that  *)
(*     1e-2 is 1 and 1.-1e-2 is Unit - 1;                                  *)
(*   - a smoothed field holds the stencil's weighted sum, in units of      *)
(*     1/(Unit * Divisor);                                                 *)
(*   - a mixing law called with arguments in units of 1/sc returns its     *)
(*     value in units of 1/sc^2.                                           *)
(* IEEE rounding of the doubles is not modelled.                           *)
(*                                                                         *)
(* Grid.  N cells per direction, periodic in every direction, so that      *)
(* every cell is an interior cell and has its full 3^d neighbourhood.      *)
(***************************************************************************)
EXTENDS Integers, Sequences, FiniteSets

VARIABLES
    FILTERED,      \* build option: smearing of the jump enabled
    TREE,          \* build option: adaptive (tree) grid
    dimension,     \* build option: 2 or 3
    mat,           \* rho1..rho3, mu1..mu3, G1..G3, lambda1..lambda3, TOLelastic
    metric,        \* the grid's metric factors cm (cells) and fm (faces)
    i,             \* the step index the scheduler hands to the events
    pc,            \* the event that runs next in step i
    field,         \* the values of f1, f2, sf1, sf2, per cell
    prolongation,  \* the prolongation attribute of f1, f2, sf1, sf2
    dirty,         \* the dirty attribute of f1, f2, sf1, sf2
    rhov,          \* cell-centred density
    alphav,        \* face specific volume, a quotient [num, den]
    muv,           \* face viscosity
    Gpd,           \* cell elastic modulus
    lambdapd       \* cell relaxation time

vars == <<FILTERED, TREE, dimension, mat, metric, i, pc, field, prolongation,
          dirty, rhov, alphav, muv, Gpd, lambdapd>>

build == <<FILTERED, TREE, dimension, mat, metric>>
derived == <<rhov, alphav, muv, Gpd, lambdapd>>

-----------------------------------------------------------------------------
(* Bounds of the model *)

N == 3          \* cells per direction
MaxStep == 2    \* the last step index explored

(* One is Unit units of a fraction field: 1e-2 is one unit *)
Unit == 100

-----------------------------------------------------------------------------
(* The grid *)

Coord == 0 .. (N - 1)

Cells == IF dimension = 2
         THEN {<<x, y, 0>> : x \in Coord, y \in Coord}
         ELSE {<<x, y, z>> : x \in Coord, y \in Coord, z \in Coord}

\* f[o] read from cell c: the neighbour of c at offset o (periodic)
Nb(c, o) == <<(c[1] + o[1]) % N, (c[2] + o[2]) % N, (c[3] + o[3]) % N>>

\* the face directions foreach_face() visits
Dirs == 1 .. dimension

\* f[-1] inside foreach_face(), in the direction d being visited
Left(d) == [k \in 1 .. 3 |-> IF k = d THEN -1 ELSE 0]

Faces == {<<d, c>> : d \in Dirs, c \in Cells}


-----------------------------------------------------------------------------
(* The fraction fields and their smeared counterparts *)

FieldNames == {"f1", "f2", "sf1", "sf2"}

interfaces == <<"f1", "f2">>

\* with FILTERED undefined sf1 and sf2 are macros for f1 and f2
smearInterfaces == IF FILTERED THEN <<"sf1", "sf2">> ELSE <<"f1", "f2">>

\* 1e-2 and 1.-1e-2 in units of a fraction field
Eps == Unit \div 100

\* variant of Corrector: the second test reads f2 instead of f1
Corrector_TestsF2(f1, f2) ==
    [c \in Cells |-> IF (f2[c] > Eps) /\ (f2[c] < Unit - Eps)
                     THEN f2[c]
                     ELSE f1[c]]

\* variant of Corrector: the test on f1 is missing
Corrector_NoUpperTest(f1, f2) ==
    [c \in Cells |-> IF f2[c] > Eps THEN f2[c] ELSE f1[c]]

\* the foreach() loop of the correction: f1[] = f2[] where f2 has run ahead
Corrector(f1, f2) ==
    [c \in Cells |-> IF (f2[c] > Eps) /\ (f1[c] < Unit - Eps)
                     THEN f2[c]
                     ELSE f1[c]]

\* the 2-D smearing expression: weight groups, each a weight and the
\* neighbours it multiplies, in the order the code names them
Stencil2 ==
    << <<4, << <<0, 0, 0>> >> >>,
       <<2, << <<0, 1, 0>>, <<0, -1, 0>>, <<1, 0, 0>>, <<-1, 0, 0>> >> >>,
       <<1, << <<-1, -1, 0>>, <<1, -1, 0>>, <<1, 1, 0>>, <<-1, 1, 0>> >> >> >>

\* variant of Stencil3: the edge neighbour f[-1,1] is written f[-1,-1]
Stencil3_Typo ==
    << <<8, << <<0, 0, 0>> >> >>,
       <<4, << <<-1, 0, 0>>, <<1, 0, 0>>, <<0, 1, 0>>, <<0, -1, 0>>,
               <<0, 0, 1>>, <<0, 0, -1>> >> >>,
       <<2, << <<-1, -1, 0>>, <<-1, 0, 1>>, <<-1, 0, -1>>, <<-1, -1, 0>>,
               <<0, 1, 1>>, <<0, 1, -1>>, <<0, -1, 1>>, <<0, -1, -1>>,
               <<1, 1, 0>>, <<1, 0, 1>>, <<1, -1, 0>>, <<1, 0, -1>> >> >>,
       <<1, << <<1, -1, 1>>, <<-1, 1, 1>>, <<-1, 1, -1>>, <<1, 1, 1>>,
               <<1, 1, -1>>, <<-1, -1, -1>>, <<1, -1, -1>>, <<-1, -1, 1>> >> >> >>

\* the 3-D smearing expression
Stencil3 ==
    << <<8, << <<0, 0, 0>> >> >>,
       <<4, << <<-1, 0, 0>>, <<1, 0, 0>>, <<0, 1, 0>>, <<0, -1, 0>>,
               <<0, 0, 1>>, <<0, 0, -1>> >> >>,
       <<2, << <<-1, 1, 0>>, <<-1, 0, 1>>, <<-1, 0, -1>>, <<-1, -1, 0>>,
               <<0, 1, 1>>, <<0, 1, -1>>, <<0, -1, 1>>, <<0, -1, -1>>,
               <<1, 1, 0>>, <<1, 0, 1>>, <<1, -1, 0>>, <<1, 0, -1>> >> >>,
       <<1, << <<1, -1, 1>>, <<-1, 1, 1>>, <<-1, 1, -1>>, <<1, 1, 1>>,
               <<1, 1, -1>>, <<-1, -1, -1>>, <<1, -1, -1>>, <<-1, -1, 1>> >> >> >>

Stencil == IF dimension <= 2 THEN Stencil2 ELSE Stencil3

\* the /16. and /64. of the smearing expressions
Divisor == IF dimension <= 2 THEN 16 ELSE 64

RECURSIVE SumReads(_, _, _, _)
\* f[o1] + f[o2] + ... over the offsets os[k..], read from cell c
SumReads(f, c, os, k) ==
    IF k > Len(os) THEN 0
    ELSE f[Nb(c, os[k])] + SumReads(f, c, os, k + 1)

RECURSIVE SumGroups(_, _, _, _)
\* w1*(...) + w2*(...) + ... over the weight groups st[k..]
SumGroups(f, c, st, k) ==
    IF k > Len(st) THEN 0
    ELSE st[k][1] * SumReads(f, c, st[k][2], 1) + SumGroups(f, c, st, k + 1)

\* the foreach() loop of the smearing: sf[] from f and its neighbours; the
\* result is the numerator over Divisor
StencilPass(f) == [c \in Cells |-> SumGroups(f, c, Stencil, 1)]

RECURSIVE SmearInner(_, _, _)
\* for (scalar f in interfaces): the pair with counter1 == counter2 is smeared
SmearInner(fld, counter1, counter2) ==
    IF counter2 > Len(interfaces) THEN fld
    ELSE SmearInner(IF counter1 = counter2
                    THEN [fld EXCEPT ![smearInterfaces[counter1]] =
                                        StencilPass(fld[interfaces[counter2]])]
                    ELSE fld,
                    counter1, counter2 + 1)

RECURSIVE SmearOuter(_, _)
\* for (scalar sf in smearInterfaces)
SmearOuter(fld, counter1) ==
    IF counter1 > Len(smearInterfaces) THEN fld
    ELSE SmearOuter(SmearInner(fld, counter1, 1), counter1 + 1)

\* variant of Smear: the smearing sits inside the if (i > 1) block
Smear_Gated(fld) == IF FILTERED /\ i > 1 THEN SmearOuter(fld, 1) ELSE fld

\* the FILTERED block of event tracer_advection
Smear(fld) == IF FILTERED THEN SmearOuter(fld, 1) ELSE fld

\* the if (i > 1) block of event tracer_advection
Correct(fld) ==
    IF i > 1 THEN [fld EXCEPT !["f1"] = Corrector(fld["f1"], fld["f2"])]
    ELSE fld

\* variant of MarkAll: only the first field of the list is marked
MarkAll_FirstOnly(attr, names, value, k) ==
    IF k > Len(names) THEN attr ELSE [attr EXCEPT ![names[k]] = value]

RECURSIVE MarkAll(_, _, _, _)
\* for (scalar sf in smearInterfaces) sf.<attribute> = value, from index k
MarkAll(attr, names, value, k) ==
    IF k > Len(names) THEN attr
    ELSE MarkAll([attr EXCEPT ![names[k]] = value], names, value, k + 1)

\* variant of TracerAdvection: the smearing runs before the correction
TracerAdvection_SmearFirst ==
    /\ pc = "tracer_advection"
    /\ field' = Correct(Smear(field))
    /\ IF TREE
       THEN /\ prolongation' =
                  MarkAll(prolongation, smearInterfaces, "refine_bilinear", 1)
            /\ dirty' = MarkAll(dirty, smearInterfaces, TRUE, 1)
       ELSE UNCHANGED <<prolongation, dirty>>
    /\ pc' = "properties"
    /\ UNCHANGED <<build, i, derived>>

\* event tracer_advection (i++)
TracerAdvection ==
    /\ pc = "tracer_advection"
    /\ field' = Smear(Correct(field))
    /\ IF TREE
       THEN /\ prolongation' =
                  MarkAll(prolongation, smearInterfaces, "refine_bilinear", 1)
            /\ dirty' = MarkAll(dirty, smearInterfaces, TRUE, 1)
       ELSE UNCHANGED <<prolongation, dirty>>
    /\ pc' = "properties"
    /\ UNCHANGED <<build, i, derived>>

-----------------------------------------------------------------------------
(* The mixing laws and event properties *)

clamp(x, a, b) == IF x < a THEN a ELSE IF x > b THEN b ELSE x

\* the three clamped phase-fraction terms, for f1 = a1/sc and f2 = a2/sc,
\* in units of 1/sc^2
PhaseA(a1, a2, sc) == clamp(a1 * (sc - a2), 0, sc * sc)
PhaseB(a1, a2, sc) == clamp(a1 * a2, 0, sc * sc)
\* variants of PhaseC: without the clamp, and of f2 instead of f1
PhaseC_Unclamped(a1, a2, sc) == (sc - a1) * sc
PhaseC_OfF2(a1, a2, sc) == clamp((sc - a2) * sc, 0, sc * sc)
PhaseC(a1, a2, sc) == clamp((sc - a1) * sc, 0, sc * sc)

\* #define rho(f1, f2)
rho(a1, a2, sc) ==
    PhaseA(a1, a2, sc) * mat.rho1 + PhaseB(a1, a2, sc) * mat.rho2
      + PhaseC(a1, a2, sc) * mat.rho3

\* #define mu(f1, f2)
mu(a1, a2, sc) ==
    PhaseA(a1, a2, sc) * mat.mu1 + PhaseB(a1, a2, sc) * mat.mu2
      + PhaseC(a1, a2, sc) * mat.mu3

\* the units of sf1 and sf2: those of f1 and f2, over Divisor when smeared
SfScale == IF FILTERED THEN Unit * Divisor ELSE Unit

\* the units of ff1 and ff2: the /2. of the face average
FaceScale == 2 * SfScale

\* variant of Exceeds: p >= TOLelastic
Exceeds_NonStrict(p, sc) ==
    p * mat.TOLelastic[2] >= mat.TOLelastic[1] * sc * sc

\* p > TOLelastic, for p in units of 1/sc^2
Exceeds(p, sc) == p * mat.TOLelastic[2] > mat.TOLelastic[1] * sc * sc

\* variant of GpdCell: the three phases are added only if all three pass
GpdCell_AllOrNothing(s1, s2, sc) ==
    IF /\ Exceeds(PhaseA(s1, s2, sc), sc)
       /\ Exceeds(PhaseB(s1, s2, sc), sc)
       /\ Exceeds(PhaseC(s1, s2, sc), sc)
    THEN mat.G1 * PhaseA(s1, s2, sc) + mat.G2 * PhaseB(s1, s2, sc)
           + mat.G3 * PhaseC(s1, s2, sc)
    ELSE 0

\* Gpd[] = 0.; then one += per phase that passes its test
GpdCell(s1, s2, sc) ==
    LET g0 == 0
        g1 == IF Exceeds(PhaseA(s1, s2, sc), sc)
              THEN g0 + mat.G1 * PhaseA(s1, s2, sc) ELSE g0
        g2 == IF Exceeds(PhaseB(s1, s2, sc), sc)
              THEN g1 + mat.G2 * PhaseB(s1, s2, sc) ELSE g1
        g3 == IF Exceeds(PhaseC(s1, s2, sc), sc)
              THEN g2 + mat.G3 * PhaseC(s1, s2, sc) ELSE g2
    IN  g3

\* lambdapd[] = 0.; then one += per phase that passes its test
LambdapdCell(s1, s2, sc) ==
    LET l0 == 0
        l1 == IF Exceeds(PhaseA(s1, s2, sc), sc)
              THEN l0 + mat.lambda1 * PhaseA(s1, s2, sc) ELSE l0
        l2 == IF Exceeds(PhaseB(s1, s2, sc), sc)
              THEN l1 + mat.lambda2 * PhaseB(s1, s2, sc) ELSE l1
        l3 == IF Exceeds(PhaseC(s1, s2, sc), sc)
              THEN l2 + mat.lambda3 * PhaseC(s1, s2, sc) ELSE l2
    IN  l3

\* ff1 and ff2 of the face <<d, c>>: the sum of the two cells, over 2
FaceValue(sf, fc) == sf[fc[2]] + sf[Nb(fc[2], Left(fc[1]))]

\* the foreach_face() loop: alphav.x[] = fm.x[]/rho(ff1, ff2)
AlphavPass(sf1, sf2) ==
    [fc \in Faces |->
        [num |-> metric.fm * FaceScale * FaceScale,
         den |-> rho(FaceValue(sf1, fc), FaceValue(sf2, fc), FaceScale)]]

\* the foreach_face() loop: muv.x[] = fm.x[]*mu(ff1, ff2)
MuvPass(sf1, sf2) ==
    [fc \in Faces |->
        metric.fm * mu(FaceValue(sf1, fc), FaceValue(sf2, fc), FaceScale)]

\* the foreach() loop: rhov[] = cm[]*rho(sf1[], sf2[])
RhovPass(sf1, sf2) ==
    [c \in Cells |-> metric.cm * rho(sf1[c], sf2[c], SfScale)]

GpdPass(sf1, sf2) == [c \in Cells |-> GpdCell(sf1[c], sf2[c], SfScale)]

LambdapdPass(sf1, sf2) ==
    [c \in Cells |-> LambdapdCell(sf1[c], sf2[c], SfScale)]

\* event properties (i++)
Properties ==
    /\ pc = "properties"
    /\ LET sf1 == field[smearInterfaces[1]]
           sf2 == field[smearInterfaces[2]]
       IN  /\ alphav' = AlphavPass(sf1, sf2)
           /\ muv' = MuvPass(sf1, sf2)
           /\ rhov' = RhovPass(sf1, sf2)
           /\ Gpd' = GpdPass(sf1, sf2)
           /\ lambdapd' = LambdapdPass(sf1, sf2)
    /\ IF TREE
       THEN /\ prolongation' =
                  MarkAll(prolongation, smearInterfaces, "fraction_refine", 1)
            /\ dirty' = MarkAll(dirty, smearInterfaces, TRUE, 1)
       ELSE UNCHANGED <<prolongation, dirty>>
    /\ pc' = "vof"
    /\ UNCHANGED <<build, i, field>>

-----------------------------------------------------------------------------
(* The collaborators: the builds, the initial fields and the advection *)

Uniform(v) == [c \in Cells |-> v]

Spot(c0, v, bg) == [c \in Cells |-> IF c = c0 THEN v ELSE bg]

\* the fraction fields the advection leaves, <<f1, f2>> in units of 1/Unit:
\* pure phases, single cells, f2 ahead of and behind f1, values at the
\* correction's two tests, and transport overshoot
Patterns ==
    { <<Uniform(100), Uniform(0)>>,
      <<Uniform(0), Uniform(0)>>,
      <<Spot(<<0, 0, 0>>, 100, 0), Spot(<<1, 0, 0>>, 100, 0)>>,
      <<Spot(<<0, 0, 0>>, 50, 0), Uniform(20)>>,
      <<Spot(<<0, 0, 0>>, 99, 98), Spot(<<1, 0, 0>>, 1, 2)>>,
      <<Spot(<<0, 0, 0>>, 50, 130), Spot(<<0, 0, 0>>, 200, -20)>> }

Material(r1, r2, r3, m1, m2, m3, g1, g2, g3, l1, l2, l3, tol) ==
    [rho1 |-> r1, rho2 |-> r2, rho3 |-> r3, mu1 |-> m1, mu2 |-> m2, mu3 |-> m3,
     G1 |-> g1, G2 |-> g2, G3 |-> g3,
     lambda1 |-> l1, lambda2 |-> l2, lambda3 |-> l3, TOLelastic |-> tol]

\* the values of the file's initialisers
Defaults == Material(1, 1, 1, 0, 0, 0, 0, 0, 0, 0, 0, 0, <<1, 10>>)

\* a coated bubble: three different fluids
Coated == Material(3, 2, 1, 1, 3, 2, 2, 3, 1, 3, 1, 2, <<1, 10>>)

Setups ==
    { <<Defaults, [cm |-> 1, fm |-> 1]>>,
      <<Coated, [cm |-> 3, fm |-> 2]>> }

InitBuild(setups) ==
    /\ FILTERED \in BOOLEAN
    /\ TREE \in BOOLEAN
    /\ dimension \in {2, 3}
    /\ \E su \in setups : mat = su[1] /\ metric = su[2]

InitRest(patterns) ==
    /\ i = 0
    /\ pc = "tracer_advection"
    /\ \E pr \in patterns :
          field = [n \in FieldNames |->
                      IF n = "f1" THEN pr[1]
                      ELSE IF n = "f2" THEN pr[2] ELSE Uniform(0)]
    /\ prolongation = [n \in FieldNames |->
                          IF n \in {"f1", "f2"} THEN "fraction_refine"
                          ELSE "refine_bilinear"]
    /\ dirty = [n \in FieldNames |-> TRUE]
    /\ rhov = Uniform(0)
    /\ alphav = [fc \in Faces |-> [num |-> 0, den |-> 1]]
    /\ muv = [fc \in Faces |-> 0]
    /\ Gpd = Uniform(0)
    /\ lambdapd = Uniform(0)

Init == InitBuild(Setups) /\ InitRest(Patterns)

\* the VOF advection of the interfaces at the start of the next step: new
\* values of f1 and f2; their boundary conditions may have been applied
Advect ==
    /\ pc = "vof"
    /\ i < MaxStep
    /\ i' = i + 1
    /\ \E pr \in Patterns :
          field' = [field EXCEPT !["f1"] = pr[1], !["f2"] = pr[2]]
    /\ \E applied \in BOOLEAN :
          dirty' = IF applied
                   THEN [dirty EXCEPT !["f1"] = FALSE, !["f2"] = FALSE]
                   ELSE dirty
    /\ pc' = "tracer_advection"
    /\ UNCHANGED <<build, prolongation, derived>>

Next == Advect \/ TracerAdvection \/ Properties

Spec == Init /\ [][Next]_vars

-----------------------------------------------------------------------------
(* One step on spatially constant fields, for the laws of a single cell *)

\* a third setup with the threshold at 1: no fraction exceeds it
Stiff == Material(3, 2, 1, 1, 3, 2, 2, 3, 1, 3, 1, 2, <<1, 1>>)

CellSetups == Setups \cup { <<Stiff, [cm |-> 2, fm |-> 2]>> }

\* fraction values in units of 1/Unit: in range, at and next to TOLelastic
\* and its complement, and outside [0, 1]
CellValues == {-20, 0, 5, 10, 11, 50, 90, 100, 130, 200}

CellPatterns == {<<Uniform(v1), Uniform(v2)>> : v1 \in CellValues, v2 \in CellValues}

InitCell == InitBuild(CellSetups) /\ InitRest(CellPatterns)

NextCell == TracerAdvection \/ Properties

SpecCell == InitCell /\ [][NextCell]_vars

-----------------------------------------------------------------------------
(* Shorthands of the claims *)

f1 == field["f1"]
f2 == field["f2"]
sf1 == field[smearInterfaces[1]]
sf2 == field[smearInterfaces[2]]

\* event tracer_advection of step i has finished, event properties has not
AfterHook == pc = "properties"

\* event properties of step i has finished
AfterEvaluator == pc = "vof"

-----------------------------------------------------------------------------
(* C1: after the Corrector has run at a step index > 1, every cell with    *)
(* f2 > 0.01 and f1 < 0.99 has f1 equal to f2, whatever the advected       *)
(* values were.                                                            *)
C1_CorrectorPostcondition ==
    (AfterHook /\ i > 1) =>
        \A c \in Cells :
            (f2[c] > Eps /\ f1[c] < Unit - Eps) => f1[c] = f2[c]

\* the correction has rewritten f1 = 0.5/0 under f2 = 0.2 to 0.2 everywhere
C1_Witness ==
    AfterHook /\ i > 1 /\ f2 = Uniform(20) /\ f1 = Uniform(20)

(* C2 as stated: the Corrector never lowers f1 in any cell, and leaves f2. *)
C2_NeverShrinks ==
    [][pc = "tracer_advection" =>
          /\ field'["f2"] = f2
          /\ \A c \in Cells : field'["f1"][c] >= f1[c]]_vars

(* C2 amended: the Corrector leaves f2, and leaves or raises f1 in every   *)
(* cell except those with 0.01 < f2 < f1 < 0.99, where it lowers f1 to f2. *)
C2_ShrinksOnlyBelowF1 ==
    [][pc = "tracer_advection" =>
          /\ field'["f2"] = f2
          /\ \A c \in Cells :
                \/ field'["f1"][c] >= f1[c]
                \/ /\ Eps < f2[c] /\ f2[c] < f1[c] /\ f1[c] < Unit - Eps
                   /\ field'["f1"][c] = f2[c]]_vars

\* the correction has raised f1 from 0 to f2 = 1 in the cell next to the
\* origin and kept f1 = 1 at the origin, where f2 = 0
C2_Witness ==
    /\ AfterHook /\ i > 1
    /\ f2 = Spot(<<1, 0, 0>>, 100, 0)
    /\ f1[<<1, 0, 0>>] = 100 /\ f1[<<0, 0, 0>>] = 100

(* C3 as stated: at step indices 0 and 1 the hook changes neither f1 nor   *)
(* the smeared fields.                                                     *)
C3_AllGatedOnStep ==
    [][(pc = "tracer_advection" /\ i <= 1) => field' = field]_vars

(* C3 amended: only the correction is conditioned on the step index: at    *)
(* step indices 0 and 1 the hook leaves f1, at every step index > 1 it     *)
(* applies the correction; with smearing enabled it recomputes sf1 and sf2 *)
(* from the stencil at every step index, 0 and 1 included.                 *)
C3_OnlyCorrectionGated ==
    [][pc = "tracer_advection" =>
          /\ i <= 1 => field'["f1"] = f1
          /\ i > 1 => field'["f1"] = Corrector(f1, f2)
          /\ field'["f2"] = f2
          /\ FILTERED => /\ field'["sf1"] = StencilPass(field'["f1"])
                         /\ field'["sf2"] = StencilPass(field'["f2"])]_vars

\* at step index 1 the smearing has produced sf1 from a single-cell f1
C3_Witness ==
    /\ AfterHook /\ i = 1 /\ FILTERED
    /\ f1 = Spot(<<0, 0, 0>>, 100, 0)
    /\ sf1[<<0, 0, 0>>] = 100 * (Divisor \div 4)

-----------------------------------------------------------------------------
(* The fractions and thresholds the claims on event properties speak of *)

\* sc^2 for the cells and for the faces: the value 1 of a mixing-law term
CellOne == SfScale * SfScale
FaceOne == FaceScale * FaceScale

FracA(c) == PhaseA(sf1[c], sf2[c], SfScale)
FracB(c) == PhaseB(sf1[c], sf2[c], SfScale)
FracC(c) == PhaseC(sf1[c], sf2[c], SfScale)

\* p > TOLelastic, p = TOLelastic, 1 > TOLelastic
Above(p) == p * mat.TOLelastic[2] > mat.TOLelastic[1] * CellOne
AtThreshold(p) == p * mat.TOLelastic[2] = mat.TOLelastic[1] * CellOne
OneAbove == mat.TOLelastic[2] > mat.TOLelastic[1]

Contribution(k, p) == IF Above(p) THEN k * p ELSE 0

Max3(a, b, c) ==
    IF a >= b /\ a >= c THEN a ELSE IF b >= c THEN b ELSE c

(* C4: each phase contributes modulus*p and relaxation_time*p if and only  *)
(* if its own clamped fraction p is strictly above TOLelastic, and the two *)
(* fields are the sums of these contributions, from zero.                  *)
C4_StrictPerPhaseGating ==
    AfterEvaluator =>
        \A c \in Cells :
            /\ Gpd[c] = Contribution(mat.G1, FracA(c))
                          + Contribution(mat.G2, FracB(c))
                          + Contribution(mat.G3, FracC(c))
            /\ lambdapd[c] = Contribution(mat.lambda1, FracA(c))
                               + Contribution(mat.lambda2, FracB(c))
                               + Contribution(mat.lambda3, FracC(c))

\* phase A sits exactly at TOLelastic and is left out, phase C is counted
C4_Witness ==
    /\ AfterEvaluator /\ mat.G1 > 0 /\ mat.G3 > 0
    /\ \E c \in Cells :
          /\ AtThreshold(FracA(c)) /\ Above(FracC(c))
          /\ Gpd[c] = mat.G3 * FracC(c)

\* every clamped term lies in [0, 1], in the cells and on the faces
TermsInRange ==
    /\ \A c \in Cells :
          /\ FracA(c) \in 0 .. CellOne
          /\ FracB(c) \in 0 .. CellOne
          /\ FracC(c) \in 0 .. CellOne
    /\ \A fc \in Faces :
          LET ff1 == FaceValue(sf1, fc)
              ff2 == FaceValue(sf2, fc)
          IN  /\ PhaseA(ff1, ff2, FaceScale) \in 0 .. FaceOne
              /\ PhaseB(ff1, ff2, FaceScale) \in 0 .. FaceOne
              /\ PhaseC(ff1, ff2, FaceScale) \in 0 .. FaceOne

\* the mixed properties lie between 0 and k times the largest constant
MixedWithin(k) ==
    /\ \A c \in Cells :
          /\ rhov[c] >= 0
          /\ rhov[c] <= k * metric.cm * Max3(mat.rho1, mat.rho2, mat.rho3) * CellOne
    /\ \A fc \in Faces :
          /\ muv[fc] >= 0
          /\ muv[fc] <= k * metric.fm * Max3(mat.mu1, mat.mu2, mat.mu3) * FaceOne
          /\ alphav[fc].den >= 0
          /\ alphav[fc].den <= k * Max3(mat.rho1, mat.rho2, mat.rho3) * FaceOne

(* C5 as stated: every clamped term lies in [0, 1] and the mixed density   *)
(* and viscosity are never negative and never above the largest constant.  *)
C5_NeverAboveLargest == AfterEvaluator => (TermsInRange /\ MixedWithin(1))

(* C5 amended: every clamped term lies in [0, 1] and the mixed density and *)
(* viscosity are never negative and never above twice the largest          *)
(* constant: the three clamped terms sum to at most 2, not to at most 1.   *)
C5_NeverAboveTwiceLargest == AfterEvaluator => (TermsInRange /\ MixedWithin(2))

\* f1 = 0.5, f2 = 2: the weights are 0, 1 and 0.5, the density 1.5 times
\* the common density of the three phases
C5_Witness ==
    /\ AfterEvaluator /\ mat = Defaults
    /\ sf1 = Uniform(50 * (SfScale \div Unit))
    /\ sf2 = Uniform(200 * (SfScale \div Unit))
    /\ \A c \in Cells : 2 * rhov[c] = 3 * metric.cm * mat.rho1 * CellOne

-----------------------------------------------------------------------------
(* The full neighbourhood of a cell, by class *)

Steps == {-1, 0, 1}

\* the 3^d offsets around a cell
Box == IF dimension = 2
       THEN {<<a, b, 0>> : a \in Steps, b \in Steps}
       ELSE {<<a, b, c>> : a \in Steps, b \in Steps, c \in Steps}

NonZero(o) == Cardinality({k \in 1 .. 3 : o[k] # 0})

\* centre 2^d, then half as much per direction the neighbour is away in
ClassWeight(o) == 2 ^ (dimension - NonZero(o))

RECURSIVE BoxSum(_, _, _)
\* every offset of os counted once, at its class weight
BoxSum(f, c, os) ==
    IF os = {} THEN 0
    ELSE LET o == CHOOSE x \in os : TRUE
         IN  ClassWeight(o) * f[Nb(c, o)] + BoxSum(f, c, os \ {o})

BoxAverage(f) == [c \in Cells |-> BoxSum(f, c, Box)]

(* C6: with smearing enabled, sf1 and sf2 are the averages of f1 and f2    *)
(* over the full 3^d neighbourhood, every neighbour counted once at its    *)
(* class weight; the weights sum to the divisor, and a spatially constant  *)
(* field of value v gives sf = v in every cell.                            *)
C6_StencilIsBoxAverage ==
    (AfterHook /\ FILTERED) =>
        /\ BoxSum(Uniform(1), <<0, 0, 0>>, Box) = Divisor
        /\ \A n \in 1 .. 2 :
              LET f == field[interfaces[n]]
                  sf == field[smearInterfaces[n]]
              IN  /\ sf = BoxAverage(f)
                  /\ \A v \in {f[<<0, 0, 0>>]} :
                        f = Uniform(v) => sf = Uniform(v * Divisor)

\* 3-D: a single cell with f1 = 0.5 at the origin reaches its corner neighbour
\* with weight 1, its edge neighbour with 2 and its face neighbour with 4,
\* while f2 = 0.2 everywhere gives sf2 = 0.2 everywhere
C6_Witness ==
    /\ AfterHook /\ FILTERED /\ dimension = 3 /\ i = 1
    /\ f1 = Spot(<<0, 0, 0>>, 50, 0)
    /\ f2 = Uniform(20)
    /\ sf1[<<1, 1, 1>>] = 50 /\ sf1[<<1, 1, 0>>] = 100
    /\ sf1[<<1, 0, 0>>] = 200 /\ sf1[<<0, 0, 0>>] = 400
    /\ sf2 = Uniform(20 * Divisor)

(* C7: in a cell with sf1 = 0, sf2 = 0 the density is cm*rho3, the elastic *)
(* modulus G3 and the relaxation time lambda3 (0 unless 1 > TOLelastic),   *)
(* and on a face to a like neighbour the viscosity is fm*mu3 and the       *)
(* specific volume fm/rho3; with sf1 = 1, sf2 = 0 the same holds with      *)
(* rho1, mu1, G1 and lambda1.                                              *)
C7_PurePhases ==
    AfterEvaluator =>
        \A c \in Cells :
            /\ (sf1[c] = 0 /\ sf2[c] = 0) =>
                  /\ rhov[c] = metric.cm * mat.rho3 * CellOne
                  /\ Gpd[c] = IF OneAbove THEN mat.G3 * CellOne ELSE 0
                  /\ lambdapd[c] = IF OneAbove THEN mat.lambda3 * CellOne ELSE 0
                  /\ \A d \in Dirs :
                        LET nb == Nb(c, Left(d))
                        IN  (sf1[nb] = 0 /\ sf2[nb] = 0) =>
                               /\ muv[<<d, c>>] = metric.fm * mat.mu3 * FaceOne
                               /\ alphav[<<d, c>>] =
                                     [num |-> metric.fm * FaceOne,
                                      den |-> mat.rho3 * FaceOne]
            /\ (sf1[c] = SfScale /\ sf2[c] = 0) =>
                  /\ rhov[c] = metric.cm * mat.rho1 * CellOne
                  /\ Gpd[c] = IF OneAbove THEN mat.G1 * CellOne ELSE 0
                  /\ lambdapd[c] = IF OneAbove THEN mat.lambda1 * CellOne ELSE 0
                  /\ \A d \in Dirs :
                        LET nb == Nb(c, Left(d))
                        IN  (sf1[nb] = SfScale /\ sf2[nb] = 0) =>
                               /\ muv[<<d, c>>] = metric.fm * mat.mu1 * FaceOne
                               /\ alphav[<<d, c>>] =
                                     [num |-> metric.fm * FaceOne,
                                      den |-> mat.rho1 * FaceOne]

\* pure phase A everywhere, three different fluids, smearing enabled
C7_Witness ==
    /\ AfterEvaluator /\ mat = Coated /\ FILTERED
    /\ sf1 = Uniform(SfScale) /\ sf2 = Uniform(0)
    /\ rhov = Uniform(metric.cm * mat.rho1 * CellOne)
    /\ Gpd = Uniform(mat.G1 * CellOne)

\* the cells of scenario 3: f1 = 0.05, f2 = 0, TOLelastic = 0.1, no smearing
Scenario3(c) ==
    /\ ~FILTERED /\ mat.TOLelastic = <<1, 10>>
    /\ f1[c] = 5 /\ f2[c] = 0

(* C8 as stated: in scenario 3 the elastic modulus and the relaxation time *)
(* are both 0, whatever the moduli and relaxation times.                   *)
C8_BothZero ==
    AfterEvaluator =>
        \A c \in Cells : Scenario3(c) => (Gpd[c] = 0 /\ lambdapd[c] = 0)

(* C8 amended: in scenario 3 the elastic modulus is 0.95*G3 and the        *)
(* relaxation time 0.95*lambda3: phase A's fraction 0.05 does not clear    *)
(* the threshold, phase C's 0.95 does.                                     *)
C8_PhaseCOnly ==
    AfterEvaluator =>
        \A c \in Cells :
            Scenario3(c) => /\ 100 * Gpd[c] = 95 * mat.G3 * CellOne
                            /\ 100 * lambdapd[c] = 95 * mat.lambda3 * CellOne

\* scenario 3 with three different fluids: the modulus is not 0
C8_Witness ==
    /\ AfterEvaluator /\ mat = Coated
    /\ \E c \in Cells : Scenario3(c) /\ Gpd[c] > 0 /\ lambdapd[c] > 0

-----------------------------------------------------------------------------
(* C9: within a step the stages run in the order Corrector, Smoothing,     *)
(* Evaluator, each over all cells before the next: once the hook has run,  *)
(* f1 is the corrected field (at step indices > 1) and the smeared fields  *)
(* are the neighbourhood averages of that corrected f1 and of f2; once the *)
(* Evaluator has run, every derived field is the one computed from the     *)
(* smeared fields of the same step (f1 and f2 themselves without           *)
(* smearing).                                                              *)
C9_StagesInOrder ==
    /\ (AfterHook \/ AfterEvaluator) =>
          /\ i > 1 => f1 = Corrector(f1, f2)
          /\ FILTERED => /\ field["sf1"] = BoxAverage(f1)
                         /\ field["sf2"] = BoxAverage(f2)
          /\ ~FILTERED => (sf1 = f1 /\ sf2 = f2)
    /\ AfterEvaluator =>
          /\ rhov = RhovPass(sf1, sf2)
          /\ alphav = AlphavPass(sf1, sf2)
          /\ muv = MuvPass(sf1, sf2)
          /\ Gpd = GpdPass(sf1, sf2)
          /\ lambdapd = LambdapdPass(sf1, sf2)

\* step 2, smearing enabled: f1 = 0.5/0 under f2 = 0.2 was corrected to 0.2
\* everywhere, smeared to 0.2 everywhere, and the density is that of the
\* mixture 0.16, 0.04, 0.8 of the three fluids
C9_Witness ==
    /\ AfterEvaluator /\ i = 2 /\ FILTERED /\ mat = Coated
    /\ f1 = Uniform(20) /\ f2 = Uniform(20)
    /\ field["sf1"] = Uniform(20 * Divisor)
    /\ \A c \in Cells :
          100 * rhov[c] =
              metric.cm * (16 * mat.rho1 + 4 * mat.rho2 + 80 * mat.rho3) * CellOne

-----------------------------------------------------------------------------
\* every field of the list carries the prolongation p and is dirty
Marked(names, p) ==
    \A k \in 1 .. Len(names) : prolongation[names[k]] = p /\ dirty[names[k]]

(* C10 as stated: on a tree grid, when the hook finishes the smeared       *)
(* fields are bilinear and dirty, and when the Evaluator finishes the      *)
(* fraction fields f1 and f2 are fraction_refine and dirty.                *)
C10_FractionFieldsMarked ==
    TREE => /\ AfterHook => Marked(smearInterfaces, "refine_bilinear")
            /\ AfterEvaluator => Marked(interfaces, "fraction_refine")

(* C10 amended: on a tree grid, when the hook finishes the smeared fields  *)
(* sf1 and sf2 are bilinear and dirty, and when the Evaluator finishes     *)
(* the same smeared fields are fraction_refine and dirty; they are f1 and  *)
(* f2 only without smearing.  With smearing neither event changes the      *)
(* prolongation or the dirty mark of f1 and f2.                            *)
C10_SmearedFieldsMarked ==
    /\ [](TREE => /\ AfterHook => Marked(smearInterfaces, "refine_bilinear")
                  /\ AfterEvaluator => Marked(smearInterfaces, "fraction_refine")
                  /\ (AfterEvaluator /\ ~FILTERED) =>
                        Marked(interfaces, "fraction_refine"))
    /\ [][(FILTERED /\ pc # "vof") =>
             /\ prolongation'["f1"] = prolongation["f1"]
             /\ prolongation'["f2"] = prolongation["f2"]
             /\ dirty'["f1"] = dirty["f1"]
             /\ dirty'["f2"] = dirty["f2"]]_vars

\* tree grid with smearing: the Evaluator has marked sf1 and sf2, while f1
\* is not dirty
C10_Witness ==
    /\ TREE /\ FILTERED /\ AfterEvaluator
    /\ Marked(<<"sf1", "sf2">>, "fraction_refine")
    /\ ~dirty["f1"]

=============================================================================
